---- MODULE Spec2Model ----
(***************************************************************************)
(* Model of cord (src/main.rs): the pipeline                               *)
(*   text -> produce_tokens -> populate_variables -> ParseExpr::expr       *)
(*        -> ParseExpr::eval                                               *)
(* run by evaluate().                                                      *)
(*                                                                         *)
(* A text is a sequence of one-character strings.  An f32 is modelled by   *)
(* a record [k, n, s]: k = "int" carries an integer n that an f32 holds    *)
(* exactly (|n| <= 2^24); k = "sym" carries in s the expression that       *)
(* produced a value the model does not compute (a fraction, a rounded or   *)
(* non-finite result, a transcendental function).  Two equal records are   *)
(* the same f32.                                                           *)
(***************************************************************************)
EXTENDS FiniteSets, Integers, Sequences, TLC

VARIABLES text, pc, tokens, idx, map, populated, queries, responses, ast, it, prims,
          result, err

vars == <<text, pc, tokens, idx, map, populated, queries, responses, ast, it, prims,
          result, err>>

(***************************************************************************)
(* Bounds of the model.                                                    *)
(***************************************************************************)
MaxTextLen == 4
MaxTokens == 5

(***************************************************************************)
(* f32 values.                                                             *)
(***************************************************************************)
F32Exact == 16777216

IntVal(n) == [k |-> "int", n |-> n, s |-> ""]
SymVal(s) == [k |-> "sym", n |-> 0, s |-> s]
NoVal == [k |-> "none", n |-> 0, s |-> ""]

Repr(v) == IF v.k = "int" THEN ToString(v.n) ELSE v.s

\* an integer result, kept when an f32 holds it exactly
F32(n, s) == IF n <= F32Exact /\ -n <= F32Exact THEN IntVal(n) ELSE SymVal(s)

(***************************************************************************)
(* Token (main.rs 10-26).                                                  *)
(***************************************************************************)
Tok(t) == [t |-> t, id |-> "", v |-> NoVal]
Plus == Tok("Plus")
Minus == Tok("Minus")
Star == Tok("Star")
Slash == Tok("Slash")
LeftParen == Tok("LeftParen")
RightParen == Tok("RightParen")
Power == Tok("Power")
Ln == Tok("Ln")
Log == Tok("Log")
Sin == Tok("Sin")
Cos == Tok("Cos")
Tan == Tok("Tan")
Number(v) == [t |-> "Number", id |-> "", v |-> v]
Variable(id) == [t |-> "Variable", id |-> id, v |-> NoVal]
NoTok == Tok("None")

(***************************************************************************)
(* Character classes of the standard library used by produce_tokens.       *)
(***************************************************************************)
Digits == <<"0", "1", "2", "3", "4", "5", "6", "7", "8", "9">>

is_ascii_digit(c) == \E i \in 1..Len(Digits) : Digits[i] = c

DigitValue(c) == (CHOOSE i \in 1..Len(Digits) : Digits[i] = c) - 1

is_ascii_alphabetic(c) ==
    c \in {"a", "b", "c", "d", "e", "f", "g", "h", "i", "j", "k", "l", "m",
           "n", "o", "p", "q", "r", "s", "t", "u", "v", "w", "x", "y", "z",
           "A", "B", "C", "D", "E", "F", "G", "H", "I", "J", "K", "L", "M",
           "N", "O", "P", "Q", "R", "S", "T", "U", "V", "W", "X", "Y", "Z"}

is_ascii_alphanumeric(c) == is_ascii_alphabetic(c) \/ is_ascii_digit(c)

RECURSIVE Concat(_)
\* the String made of a sequence of characters
Concat(cs) == IF cs = <<>> THEN "" ELSE Head(cs) \o Concat(Tail(cs))

(***************************************************************************)
(* str::parse::<f32> (called at main.rs 196 and 244): an optional sign,    *)
(* then inf / infinity / nan in any case, or a decimal number with at       *)
(* least one digit and an optional exponent.                               *)
(***************************************************************************)
Ok(v) == [ok |-> TRUE, v |-> v]
ParseFloatError == [ok |-> FALSE, v |-> NoVal]

SubStr(cs, a, b) == [i \in 1..(b - a + 1) |-> cs[a + i - 1]]

to_ascii_lowercase(c) ==
    CASE c = "I" -> "i" [] c = "N" -> "n" [] c = "F" -> "f" [] c = "T" -> "t"
      [] c = "Y" -> "y" [] c = "A" -> "a" [] c = "E" -> "e" [] OTHER -> c

Lowered(cs) == [i \in 1..Len(cs) |-> to_ascii_lowercase(cs[i])]

AllDigits(cs) == \A i \in 1..Len(cs) : is_ascii_digit(cs[i])

RECURSIVE DigitsValue(_)
DigitsValue(cs) ==
    IF cs = <<>> THEN 0
    ELSE 10 * DigitsValue(SubStr(cs, 1, Len(cs) - 1)) + DigitValue(cs[Len(cs)])

RECURSIVE StripTrailingZeros(_)
StripTrailingZeros(cs) ==
    IF cs # <<>> /\ cs[Len(cs)] = "0"
    THEN StripTrailingZeros(SubStr(cs, 1, Len(cs) - 1))
    ELSE cs

RECURSIVE ScaleUp(_, _)
\* mant * 10^scale, or a number beyond the exact range once mant has left it
ScaleUp(mant, scale) ==
    IF scale = 0 \/ mant > F32Exact \/ -mant > F32Exact THEN mant
    ELSE ScaleUp(10 * mant, scale - 1)

\* the f32 of mant * 10^scale
RECURSIVE Scaled(_, _)
Scaled(mant, scale) ==
    IF mant = 0 THEN IntVal(0)
    ELSE IF scale < 0 /\ mant % 10 = 0 THEN Scaled(mant \div 10, scale + 1)
    ELSE IF scale < 0 THEN SymVal(ToString(mant) \o "e" \o ToString(scale))
    ELSE F32(ScaleUp(mant, scale), ToString(mant) \o "e" \o ToString(scale))

\* position of the exponent marker of cs, or 0
ExpAt(cs) ==
    IF \E i \in 1..Len(cs) : cs[i] \in {"e", "E"}
    THEN CHOOSE i \in 1..Len(cs) :
             cs[i] \in {"e", "E"} /\ \A j \in 1..(i - 1) : cs[j] \notin {"e", "E"}
    ELSE 0

\* position of the first '.' of cs, or 0
DotAt(cs) ==
    IF \E i \in 1..Len(cs) : cs[i] = "."
    THEN CHOOSE i \in 1..Len(cs) : cs[i] = "." /\ \A j \in 1..(i - 1) : cs[j] # "."
    ELSE 0

\* a decimal number without its sign: digits [. digits] [(e|E) [sign] digits];
\* more than nine digits are beyond the exact range
ParseDecimal(cs, neg) ==
    LET e == ExpAt(cs)
        m == IF e = 0 THEN cs ELSE SubStr(cs, 1, e - 1)
        x == IF e = 0 THEN <<>> ELSE SubStr(cs, e + 1, Len(cs))
        xneg == x # <<>> /\ x[1] = "-"
        xd == IF x # <<>> /\ x[1] \in {"+", "-"} THEN Tail(x) ELSE x
        d == DotAt(m)
        ip == IF d = 0 THEN m ELSE SubStr(m, 1, d - 1)
        fp == IF d = 0 THEN <<>> ELSE SubStr(m, d + 1, Len(m))
        fs == StripTrailingZeros(fp)
    IN  IF \/ ~AllDigits(ip) \/ ~AllDigits(fp)
           \/ (ip = <<>> /\ fp = <<>>)
           \/ (e # 0 /\ (xd = <<>> \/ ~AllDigits(xd)))
        THEN ParseFloatError
        ELSE IF Len(ip \o fs) > 9
        THEN Ok(SymVal(Concat(IF neg THEN <<"-">> ELSE <<>>) \o Concat(cs)))
        ELSE LET mant == DigitsValue(ip \o fs)
                 ex == IF Len(xd) > 2 THEN 99 ELSE DigitsValue(xd)
                 scale == (IF xneg THEN -ex ELSE ex) - Len(fs)
             IN  Ok(Scaled(IF neg THEN -mant ELSE mant, scale))

ParseF32(cs) ==
    LET signed == cs # <<>> /\ cs[1] \in {"+", "-"}
        neg == cs # <<>> /\ cs[1] = "-"
        body == IF signed THEN Tail(cs) ELSE cs
    IN  IF Lowered(body) \in {<<"i", "n", "f">>, <<"n", "a", "n">>,
                              <<"i", "n", "f", "i", "n", "i", "t", "y">>}
        THEN Ok(SymVal(Concat(IF neg THEN <<"-">> ELSE <<>>) \o Concat(Lowered(body))))
        ELSE ParseDecimal(body, neg)

(***************************************************************************)
(* produce_tokens (main.rs 171-229).                                       *)
(***************************************************************************)
LexOk(ts) == [ok |-> TRUE, tokens |-> ts, err |-> ""]
LexErr(e) == [ok |-> FALSE, tokens |-> <<>>, err |-> e]

\* main.rs 188: the characters a numeric literal goes on with
NumberContinues(c) == is_ascii_digit(c) \/ c = "."

\* an identifier that goes on with digits as well
IdentContinuesAlnum(c) == is_ascii_alphanumeric(c)

\* main.rs 201: the characters an identifier goes on with
IdentContinues(c) == is_ascii_alphabetic(c)

\* main.rs 187-194: index of the last character of the literal begun at i
NumberEnd(chars, i) ==
    CHOOSE j \in i..Len(chars) :
        /\ \A k \in (i + 1)..j : NumberContinues(chars[k])
        /\ (j = Len(chars) \/ ~NumberContinues(chars[j + 1]))

\* main.rs 200-207: index of the last character of the identifier begun at i
IdentEnd(chars, i) ==
    CHOOSE j \in i..Len(chars) :
        /\ \A k \in (i + 1)..j : IdentContinues(chars[k])
        /\ (j = Len(chars) \/ ~IdentContinues(chars[j + 1]))

Keywords == {"ln", "sin", "cos", "tan", "log"}

KeywordToken(s) ==
    CASE s = "ln" -> Ln [] s = "sin" -> Sin [] s = "cos" -> Cos
      [] s = "tan" -> Tan [] s = "log" -> Log

RECURSIVE LexFrom(_, _, _)
\* main.rs 176-226: the loop, from character i on, with the tokens pushed so far
LexFrom(chars, i, ts) ==
    IF i > Len(chars) THEN LexOk(ts)
    ELSE LET c == chars[i] IN
      CASE c = "+" -> LexFrom(chars, i + 1, Append(ts, Plus))
        [] c = "-" -> LexFrom(chars, i + 1, Append(ts, Minus))
        [] c = "*" -> LexFrom(chars, i + 1, Append(ts, Star))
        [] c = "/" -> LexFrom(chars, i + 1, Append(ts, Slash))
        [] c = "^" -> LexFrom(chars, i + 1, Append(ts, Power))
        [] c \in {"(", "["} -> LexFrom(chars, i + 1, Append(ts, LeftParen))
        [] c \in {")", "]"} -> LexFrom(chars, i + 1, Append(ts, RightParen))
        [] is_ascii_digit(c) ->
             LET j == NumberEnd(chars, i)
                 n == ParseF32(SubStr(chars, i, j))
             IN  IF n.ok THEN LexFrom(chars, j + 1, Append(ts, Number(n.v)))
                 ELSE LexErr("invalid float literal")
        [] ~is_ascii_digit(c) /\ is_ascii_alphanumeric(c) ->
             LET j == IdentEnd(chars, i)
                 string == Concat(SubStr(chars, i, j))
             IN  IF string \in Keywords
                 THEN LexFrom(chars, j + 1, Append(ts, KeywordToken(string)))
                 ELSE IF j - i + 1 > 1
                      THEN LexErr("Variable length cannot exceed 1")
                      ELSE LexFrom(chars, j + 1, Append(ts, Variable(string)))
        [] c \in {" ", "\n", "\r"} -> LexFrom(chars, i + 1, ts)
        [] OTHER -> LexErr("bad expr")

produce_tokens(chars) == LexFrom(chars, 1, <<>>)

(***************************************************************************)
(* ParseExpr (main.rs 35-40).  kids holds the children of a node, left to  *)
(* right.                                                                  *)
(***************************************************************************)
Binary(l, o, r) == [k |-> "Binary", o |-> o, kids |-> <<l, r>>]
Unary(o, e) == [k |-> "Unary", o |-> o, kids |-> <<e>>]
Value(t) == [k |-> "Value", o |-> t, kids |-> <<>>]
NoTree == [k |-> "None", o |-> NoTok, kids |-> <<>>]

(***************************************************************************)
(* The parser (main.rs 43-142).  The Peekable iterator is the token        *)
(* sequence toks and the index pos of the token next() returns.  A result  *)
(* carries the iterator position the call leaves behind and, as history,   *)
(* prims: the positions at which primary was entered during the call.      *)
(***************************************************************************)
POk(tree, pos, ps) ==
    [ok |-> TRUE, tree |-> tree, pos |-> pos, err |-> "", prims |-> ps]
PErr(e, pos, ps) ==
    [ok |-> FALSE, tree |-> NoTree, pos |-> pos, err |-> e, prims |-> ps]

\* a failed call, after the primaries entered before it
After(ps, r) == [r EXCEPT !.prims = ps \cup r.prims]

\* main.rs 56
IsTermOp(t) == t \in {Plus, Minus}
\* a factor level that takes the operators of the term level as well
IsFactorOpWithTerm(t) == t \in {Star, Slash, Plus, Minus}

\* main.rs 73
IsFactorOp(t) == t \in {Star, Slash}
\* main.rs 89
IsPowerOp(t) == t = Power
\* a prefix level that takes Power for a prefix operator as well
IsUnaryOpWithPower(t) == t \in {Minus, Plus, Ln, Log, Sin, Cos, Tan, Power}

\* main.rs 105-114
IsUnaryOp(t) == t \in {Minus, Plus, Ln, Log, Sin, Cos, Tan}

\* tokens.peek(): the next token, NoTok for None
Peek(toks, pos) == IF pos <= Len(toks) THEN toks[pos] ELSE NoTok

RECURSIVE expr(_, _), term(_, _), term_loop(_, _), factor(_, _), factor_loop(_, _)
RECURSIVE power(_, _), power_loop(_, _), unary(_, _), primary(_, _)

\* a primary that does not look at the token after the bracketed expression
primary_unchecked(toks, pos) ==
    IF pos <= Len(toks) /\ toks[pos].t = "Number"
    THEN POk(Value(toks[pos]), pos + 1, {pos})
    ELSE IF pos <= Len(toks) /\ toks[pos] = LeftParen
    THEN LET e == expr(toks, pos + 1) IN
         IF ~e.ok THEN After({pos}, e)
         ELSE POk(e.tree, IF e.pos <= Len(toks) THEN e.pos + 1 ELSE e.pos,
                  {pos} \cup e.prims)
    ELSE PErr("parser failed", pos, {pos})

\* a primary that takes any token but a LeftParen for a value
primary_any_value(toks, pos) ==
    IF pos <= Len(toks) /\ toks[pos] # LeftParen
    THEN POk(Value(toks[pos]), pos + 1, {pos})
    ELSE IF pos <= Len(toks)
    THEN LET e == expr(toks, pos + 1) IN
         IF ~e.ok THEN After({pos}, e)
         ELSE IF ~(e.pos <= Len(toks) /\ toks[e.pos] = RightParen)
              THEN PErr("Unclosed bracket",
                        IF e.pos <= Len(toks) THEN e.pos + 1 ELSE e.pos,
                        {pos} \cup e.prims)
              ELSE POk(e.tree, e.pos + 1, {pos} \cup e.prims)
    ELSE PErr("parser failed", pos, {pos})

\* main.rs 123-142
primary(toks, pos) ==
    IF pos <= Len(toks) /\ toks[pos].t = "Number"
    THEN POk(Value(toks[pos]), pos + 1, {pos})
    ELSE IF pos <= Len(toks) /\ toks[pos] = LeftParen
    THEN LET e == expr(toks, pos + 1) IN
         IF ~e.ok THEN After({pos}, e)
         ELSE IF ~(e.pos <= Len(toks) /\ toks[e.pos] = RightParen)
              THEN PErr("Unclosed bracket",
                        IF e.pos <= Len(toks) THEN e.pos + 1 ELSE e.pos,
                        {pos} \cup e.prims)
              ELSE POk(e.tree, e.pos + 1, {pos} \cup e.prims)
    ELSE PErr("parser failed", pos, {pos})

\* main.rs 100-121
unary(toks, pos) ==
    IF IsUnaryOp(Peek(toks, pos))
    THEN LET right == unary(toks, pos + 1) IN
         IF ~right.ok THEN right
         ELSE POk(Unary(toks[pos], right.tree), right.pos, right.prims)
    ELSE primary(toks, pos)

\* a power level that groups to the right: the right operand is a whole power
power_loop_right(toks, e) ==
    IF IsPowerOp(Peek(toks, e.pos))
    THEN LET right == power(toks, e.pos + 1) IN
         IF ~right.ok THEN After(e.prims, right)
         ELSE POk(Binary(e.tree, toks[e.pos], right.tree),
                  right.pos, e.prims \cup right.prims)
    ELSE e

\* main.rs 88-97: the loop of power, entered with the expression so far
power_loop(toks, e) ==
    IF IsPowerOp(Peek(toks, e.pos))
    THEN LET right == unary(toks, e.pos + 1) IN
         IF ~right.ok THEN After(e.prims, right)
         ELSE power_loop(toks, POk(Binary(e.tree, toks[e.pos], right.tree),
                                   right.pos, e.prims \cup right.prims))
    ELSE e

\* main.rs 83-98
power(toks, pos) ==
    LET e == unary(toks, pos) IN IF ~e.ok THEN e ELSE power_loop(toks, e)

\* main.rs 72-81: the loop of factor
factor_loop(toks, e) ==
    IF IsFactorOp(Peek(toks, e.pos))
    THEN LET right == power(toks, e.pos + 1) IN
         IF ~right.ok THEN After(e.prims, right)
         ELSE factor_loop(toks, POk(Binary(e.tree, toks[e.pos], right.tree),
                                    right.pos, e.prims \cup right.prims))
    ELSE e

\* main.rs 67-82
factor(toks, pos) ==
    LET e == power(toks, pos) IN IF ~e.ok THEN e ELSE factor_loop(toks, e)

\* main.rs 55-64: the loop of term
term_loop(toks, e) ==
    IF IsTermOp(Peek(toks, e.pos))
    THEN LET right == factor(toks, e.pos + 1) IN
         IF ~right.ok THEN After(e.prims, right)
         ELSE term_loop(toks, POk(Binary(e.tree, toks[e.pos], right.tree),
                                  right.pos, e.prims \cup right.prims))
    ELSE e

\* main.rs 50-65
term(toks, pos) ==
    LET e == factor(toks, pos) IN IF ~e.ok THEN e ELSE term_loop(toks, e)

\* main.rs 43-48
expr(toks, pos) == term(toks, pos)

(***************************************************************************)
(* f32 arithmetic used by eval (main.rs 147-161).                          *)
(***************************************************************************)
BinRepr(a, op, b) == "(" \o Repr(a) \o op \o Repr(b) \o ")"
FnRepr(f, a) == f \o "(" \o Repr(a) \o ")"
BothInt(a, b) == a.k = "int" /\ b.k = "int"
Abs(n) == IF n < 0 THEN -n ELSE n

f32_add(a, b) ==
    IF BothInt(a, b) THEN F32(a.n + b.n, BinRepr(a, "+", b)) ELSE SymVal(BinRepr(a, "+", b))
f32_sub(a, b) ==
    IF BothInt(a, b) THEN F32(a.n - b.n, BinRepr(a, "-", b)) ELSE SymVal(BinRepr(a, "-", b))
\* the product of two integers of the exact range, or a number beyond the range
SatMul(m, n) ==
    IF m = 0 \/ n = 0 THEN 0
    ELSE IF Abs(m) > F32Exact \div Abs(n) THEN F32Exact + 1
    ELSE m * n

f32_mul(a, b) ==
    IF BothInt(a, b) THEN F32(SatMul(a.n, b.n), BinRepr(a, "*", b))
    ELSE SymVal(BinRepr(a, "*", b))
f32_div(a, b) ==
    IF BothInt(a, b) /\ b.n # 0 /\ Abs(a.n) % Abs(b.n) = 0
    THEN IntVal((IF (a.n < 0) # (b.n < 0) THEN -1 ELSE 1) * (Abs(a.n) \div Abs(b.n)))
    ELSE SymVal(BinRepr(a, "/", b))

RECURSIVE IntPow(_, _)
IntPow(b, e) ==
    IF e = 0 THEN 1
    ELSE LET p == IntPow(b, e - 1) IN IF Abs(p) > F32Exact THEN p ELSE SatMul(b, p)

f32_powf(a, b) ==
    IF BothInt(a, b) /\ b.n >= 0 /\ (Abs(a.n) <= 1 \/ b.n <= 24)
    THEN IF a.n = 1 \/ b.n = 0 THEN IntVal(1)
         ELSE IF a.n = 0 THEN IntVal(0)
         ELSE IF a.n = -1 THEN IntVal(IF b.n % 2 = 0 THEN 1 ELSE -1)
         ELSE F32(IntPow(a.n, b.n), BinRepr(a, "^", b))
    ELSE SymVal(BinRepr(a, "^", b))

f32_neg(a) == IF a.k = "int" THEN IntVal(-a.n) ELSE SymVal(FnRepr("-", a))
f32_sin(a) == IF a = IntVal(0) THEN IntVal(0) ELSE SymVal(FnRepr("sin", a))
f32_cos(a) == IF a = IntVal(0) THEN IntVal(1) ELSE SymVal(FnRepr("cos", a))
f32_tan(a) == IF a = IntVal(0) THEN IntVal(0) ELSE SymVal(FnRepr("tan", a))
f32_ln(a) == IF a = IntVal(1) THEN IntVal(0) ELSE SymVal(FnRepr("ln", a))
f32_log10(a) == IF a = IntVal(1) THEN IntVal(0) ELSE SymVal(FnRepr("log10", a))

(***************************************************************************)
(* ParseExpr::eval (main.rs 144-169).                                      *)
(***************************************************************************)
EOk(v) == [ok |-> TRUE, v |-> v, err |-> ""]
EErr(e) == [ok |-> FALSE, v |-> NoVal, err |-> e]

\* main.rs 147-152
BinaryArm(o, l, r) ==
    CASE o = Plus -> EOk(f32_add(l, r))
      [] o = Star -> EOk(f32_mul(l, r))
      [] o = Slash -> EOk(f32_div(l, r))
      [] o = Minus -> EOk(f32_sub(l, r))
      [] o = Power -> EOk(f32_powf(l, r))
      [] OTHER -> EErr("Invalid binary operand.")

\* main.rs 155-162
UnaryArm(o, e) ==
    CASE o = Minus -> EOk(f32_neg(e))
      [] o = Plus -> EOk(e)
      [] o = Sin -> EOk(f32_sin(e))
      [] o = Cos -> EOk(f32_cos(e))
      [] o = Tan -> EOk(f32_tan(e))
      [] o = Ln -> EOk(f32_ln(e))
      [] o = Log -> EOk(f32_log10(e))
      [] OTHER -> EErr("Invalid unary operand.")

RECURSIVE eval(_)
eval(self) ==
    CASE self.k = "Binary" ->
           IF ~(self.o \in {Plus, Star, Slash, Minus, Power})
           THEN EErr("Invalid binary operand.")
           ELSE LET l == eval(self.kids[1]) IN
                IF ~l.ok THEN l
                ELSE LET r == eval(self.kids[2]) IN
                     IF ~r.ok THEN r ELSE BinaryArm(self.o, l.v, r.v)
      [] self.k = "Unary" ->
           IF ~(self.o \in {Minus, Plus, Sin, Cos, Tan, Ln, Log})
           THEN EErr("Invalid unary operand.")
           ELSE LET e == eval(self.kids[1]) IN
                IF ~e.ok THEN e ELSE UnaryArm(self.o, e.v)
      [] self.k = "Value" ->
           IF self.o.t = "Number" THEN EOk(self.o.v) ELSE EErr("Invalid value")

(***************************************************************************)
(* populate_variables (main.rs 231-254), one iteration of its loop at a    *)
(* time.  A response of the value provider is the line read_line stores,   *)
(* or IoError when read_line fails.                                        *)
(***************************************************************************)
IoError == <<"io error">>

Responses == {<<"5", "\n">>, <<" ", "3", "\r", "\n">>, <<"x", "\n">>, IoError}

IsWhitespace(c) == c \in {" ", "\n", "\r", "\t"}

RECURSIVE TrimStart(_)
TrimStart(cs) == IF cs # <<>> /\ IsWhitespace(Head(cs)) THEN TrimStart(Tail(cs)) ELSE cs

RECURSIVE TrimEnd(_)
TrimEnd(cs) ==
    IF cs # <<>> /\ IsWhitespace(cs[Len(cs)])
    THEN TrimEnd(SubStr(cs, 1, Len(cs) - 1))
    ELSE cs

\* str::trim (main.rs 244)
Trim(cs) == TrimEnd(TrimStart(cs))

\* main.rs 232
EmptyMap == <<>>

\* a cache that never answers
MapHasNever(m, id) == FALSE

\* main.rs 236-237: map.get(identifer) is Some
MapHas(m, id) == id \in DOMAIN m

\* an insert that binds the identifier to zero instead of the parsed value
MapInsertZero(m, id, v) == [x \in DOMAIN m \cup {id} |-> IF x = id THEN IntVal(0) ELSE m[x]]

\* main.rs 245
MapInsert(m, id, v) == [x \in DOMAIN m \cup {id} |-> IF x = id THEN v ELSE m[x]]

\* the history of the run: queries holds the identifiers the provider was asked
\* for, responses what it answered, in order

\* main.rs 237-238: the identifier is bound
PopulateCached ==
    /\ tokens[idx].t = "Variable"
    /\ MapHas(map, tokens[idx].id)
    /\ populated' = Append(populated, Number(map[tokens[idx].id]))
    /\ idx' = idx + 1
    /\ UNCHANGED <<pc, map, queries, responses, err>>

\* a resolver that takes a response it cannot parse for zero and goes on
PopulateQueryLenient(resp) ==
    /\ tokens[idx].t = "Variable"
    /\ ~MapHas(map, tokens[idx].id)
    /\ queries' = Append(queries, tokens[idx].id)
    /\ responses' = Append(responses, resp)
    /\ LET parsed == IF resp = IoError THEN ParseFloatError ELSE ParseF32(Trim(resp))
           value == IF parsed.ok THEN parsed.v ELSE IntVal(0)
       IN  /\ map' = MapInsert(map, tokens[idx].id, value)
           /\ populated' = Append(populated, Number(value))
           /\ idx' = idx + 1
           /\ UNCHANGED <<pc, err>>

\* main.rs 240-246: the identifier is not bound, the provider is asked
PopulateQuery(resp) ==
    /\ tokens[idx].t = "Variable"
    /\ ~MapHas(map, tokens[idx].id)
    /\ queries' = Append(queries, tokens[idx].id)
    /\ responses' = Append(responses, resp)
    /\ IF resp = IoError
       THEN /\ pc' = "resolve_err"
            /\ err' = "io error"
            /\ UNCHANGED <<map, populated, idx>>
       ELSE LET parsed == ParseF32(Trim(resp)) IN
            IF ~parsed.ok
            THEN /\ pc' = "resolve_err"
                 /\ err' = "invalid float literal"
                 /\ UNCHANGED <<map, populated, idx>>
            ELSE /\ map' = MapInsert(map, tokens[idx].id, parsed.v)
                 /\ populated' = Append(populated, Number(parsed.v))
                 /\ idx' = idx + 1
                 /\ UNCHANGED <<pc, err>>

\* main.rs 248-250
PopulatePass ==
    /\ tokens[idx].t # "Variable"
    /\ populated' = Append(populated, tokens[idx])
    /\ idx' = idx + 1
    /\ UNCHANGED <<pc, map, queries, responses, err>>

\* main.rs 234-251: one iteration of the loop
PopulateStep ==
    /\ pc = "populate"
    /\ idx <= Len(tokens)
    /\ \/ PopulateCached
       \/ \E resp \in Responses : PopulateQuery(resp)
       \/ PopulatePass
    /\ UNCHANGED <<text, tokens, ast, it, prims, result>>

\* main.rs 253 and 257: the loop is over, Ok(populated) goes to the parser
PopulateReturn ==
    /\ pc = "populate"
    /\ idx > Len(tokens)
    /\ pc' = "parse"
    /\ UNCHANGED <<text, tokens, idx, map, populated, queries, responses, ast, it, prims,
                 result, err>>

(***************************************************************************)
(* evaluate (main.rs 255-261): the stages, each ended by ? .               *)
(***************************************************************************)
\* main.rs 256
Tokenize ==
    /\ pc = "start"
    /\ LET r == produce_tokens(text) IN
       IF r.ok
       THEN /\ tokens' = r.tokens
            /\ pc' = "populate"
            /\ UNCHANGED err
       ELSE /\ pc' = "lex_err"
            /\ err' = r.err
            /\ UNCHANGED tokens
    /\ UNCHANGED <<text, idx, map, populated, queries, responses, ast, it, prims, result>>

\* a parse that refuses tokens left over after the expression
ParseStrict ==
    /\ pc = "parse"
    /\ LET r == expr(populated, 1) IN
       /\ it' = r.pos
       /\ prims' = r.prims
       /\ IF r.ok /\ r.pos > Len(populated)
          THEN /\ ast' = r.tree
               /\ pc' = "eval"
               /\ UNCHANGED err
          ELSE /\ pc' = "parse_err"
               /\ err' = IF r.ok THEN "trailing tokens" ELSE r.err
               /\ UNCHANGED ast
    /\ UNCHANGED <<text, tokens, idx, map, populated, queries, responses, result>>

\* main.rs 259: ParseExpr::expr(&mut populated.into_iter().peekable())?
Parse ==
    /\ pc = "parse"
    /\ LET r == expr(populated, 1) IN
       /\ it' = r.pos
       /\ prims' = r.prims
       /\ IF r.ok
          THEN /\ ast' = r.tree
               /\ pc' = "eval"
               /\ UNCHANGED err
          ELSE /\ pc' = "parse_err"
               /\ err' = r.err
               /\ UNCHANGED ast
    /\ UNCHANGED <<text, tokens, idx, map, populated, queries, responses, result>>

\* main.rs 259-260: .eval()? and Ok(result)
Eval ==
    /\ pc = "eval"
    /\ LET r == eval(ast) IN
       IF r.ok
       THEN /\ result' = r.v
            /\ pc' = "done"
            /\ UNCHANGED err
       ELSE /\ pc' = "eval_err"
            /\ err' = r.err
            /\ UNCHANGED result
    /\ UNCHANGED <<text, tokens, idx, map, populated, queries, responses, ast, it, prims>>

(***************************************************************************)
(* The run of evaluate on a text.                                          *)
(***************************************************************************)
SeqsUpTo(S, n) == UNION {[1..k -> S] : k \in 0..n}

TextAlphabet == {"a", "l", "n", "1", ".", "+", "(", ")", " ", "$"}

Init ==
    /\ text \in SeqsUpTo(TextAlphabet, MaxTextLen)
    /\ pc = "start"
    /\ tokens = <<>>
    /\ idx = 1
    /\ map = EmptyMap
    /\ populated = <<>>
    /\ queries = <<>>
    /\ responses = <<>>
    /\ ast = NoTree
    /\ it = 1
    /\ prims = {}
    /\ result = NoVal
    /\ err = ""

Next == Tokenize \/ PopulateStep \/ PopulateReturn \/ Parse \/ Eval

Spec == Init /\ [][Next]_vars

(***************************************************************************)
(* The run of evaluate from line 259 on: the tokens handed to the parser   *)
(* are those of a text without variables, which populate_variables has     *)
(* passed through.                                                         *)
(***************************************************************************)
ParseAlphabet ==
    {Plus, Minus, Star, Slash, Power, LeftParen, RightParen,
     Number(IntVal(2)), Number(IntVal(3)), Sin}

Lexeme(t) ==
    CASE t = Plus -> <<"+">> [] t = Minus -> <<"-">> [] t = Star -> <<"*">>
      [] t = Slash -> <<"/">> [] t = Power -> <<"^">>
      [] t = LeftParen -> <<"(">> [] t = RightParen -> <<")">>
      [] t = Sin -> <<"s", "i", "n">> [] t = Ln -> <<"l", "n">>
      [] t = Log -> <<"l", "o", "g">> [] t = Cos -> <<"c", "o", "s">>
      [] t = Tan -> <<"t", "a", "n">>
      [] t.t = "Number" -> <<Digits[t.v.n + 1]>>

RECURSIVE Unlex(_)
\* a text whose tokens are ts
Unlex(ts) ==
    IF ts = <<>> THEN <<>>
    ELSE IF Len(ts) = 1 THEN Lexeme(ts[1])
    ELSE Lexeme(ts[1]) \o <<" ">> \o Unlex(Tail(ts))

InitParse ==
    /\ populated \in SeqsUpTo(ParseAlphabet, MaxTokens)
    /\ tokens = populated
    /\ text = Unlex(populated)
    /\ pc = "parse"
    /\ idx = Len(populated) + 1
    /\ map = EmptyMap
    /\ queries = <<>>
    /\ responses = <<>>
    /\ ast = NoTree
    /\ it = 1
    /\ prims = {}
    /\ result = NoVal
    /\ err = ""

NextParse == Parse \/ Eval

SpecParse == InitParse /\ [][NextParse]_vars

(***************************************************************************)
(* Properties of the variable resolver and of the stages of evaluate,      *)
(* checked under Spec.                                                     *)
(***************************************************************************)
Prefix(ts, n) == SubSeq(ts, 1, n)

\* the identifiers of the Variable tokens of ts
VarIds(ts) == {ts[i].id : i \in {j \in 1..Len(ts) : ts[j].t = "Variable"}}

\* how often id occurs in the sequence q
Count(q, id) == Cardinality({i \in 1..Len(q) : q[i] = id})

\* the response parses as a number
Parses(resp) == resp # IoError /\ ParseF32(Trim(resp)).ok

AllParse == \A i \in 1..Len(responses) : Parses(responses[i])

\* populate_variables has returned Ok
Populated == pc \in {"parse", "eval", "done", "parse_err", "eval_err"}

\* the tokens the loop of populate_variables has dealt with
Seen == Prefix(tokens, idx - 1)

AplusA == <<"a", "+", "a">>

\* C1: as long as every response parses, the provider has been asked exactly
\* once for each identifier met so far and never for another one, so that a run
\* that resolves all its variables asks once per distinct identifier; a + a
\* answered 5 asks once and yields 10.
C1_OneQueryPerIdentifier ==
    /\ AllParse /\ pc # "start" /\ pc # "lex_err" =>
          /\ \A id \in VarIds(tokens) :
                Count(queries, id) = IF id \in VarIds(Seen) THEN 1 ELSE 0
          /\ Len(queries) = Cardinality(VarIds(Seen))
          /\ Len(responses) = Len(queries)
    /\ Populated => Seen = tokens
    /\ text = AplusA /\ pc = "done" /\ map["a"] = IntVal(5) =>
          /\ queries = <<"a">>
          /\ result = IntVal(10)

C1_Witness ==
    /\ text = AplusA
    /\ pc = "done"
    /\ queries = <<"a">>
    /\ map["a"] = IntVal(5)
    /\ result = IntVal(10)

\* C2: the output built so far has a Number holding the value bound to id where
\* the input has Variable(id) and the input token everywhere else; when
\* populate_variables succeeds the output is as long as the input and holds no
\* Variable.
C2_PopulateFrame ==
    /\ Len(populated) <= Len(tokens)
    /\ \A i \in 1..Len(populated) :
          IF tokens[i].t = "Variable"
          THEN /\ tokens[i].id \in DOMAIN map
               /\ populated[i] = Number(map[tokens[i].id])
               /\ populated[i].t = "Number"
          ELSE populated[i] = tokens[i]
    /\ Populated =>
          /\ Len(populated) = Len(tokens)
          /\ \A i \in 1..Len(populated) : populated[i].t # "Variable"

C2_Witness ==
    /\ pc = "parse"
    /\ \E i, j \in 1..Len(tokens) :
          /\ i < j
          /\ tokens[i].t = "Variable"
          /\ tokens[j] = tokens[i]
          /\ populated[i] = populated[j]
          /\ populated[i].t = "Number"
    /\ \E i \in 1..Len(tokens) : tokens[i].t # "Variable" /\ populated[i] = tokens[i]

\* the text has been tokenized, with or without success
Tokenized == pc # "start"

\* the characters of a word: letters, or letters and digits
InWord(kind, c) ==
    IF kind = "letters" THEN is_ascii_alphabetic(c) ELSE is_ascii_alphanumeric(c)

RECURSIVE RunEnd(_, _, _)
\* the last index of the run of word characters that holds index i
RunEnd(cs, i, kind) ==
    IF i < Len(cs) /\ InWord(kind, cs[i + 1]) THEN RunEnd(cs, i + 1, kind) ELSE i

\* the indices at which a word begins with a letter
RunStarts(cs, kind) ==
    {i \in 1..Len(cs) : is_ascii_alphabetic(cs[i]) /\ (i = 1 \/ ~InWord(kind, cs[i - 1]))}

Word(cs, i, kind) == Concat(SubSeq(cs, i, RunEnd(cs, i, kind)))

WordLen(cs, i, kind) == RunEnd(cs, i, kind) - i + 1

\* the words that are neither a keyword nor one character long
BadWords(cs, kind) ==
    {i \in RunStarts(cs, kind) : Word(cs, i, kind) \notin Keywords /\ WordLen(cs, i, kind) > 1}

A1 == <<"a", "1">>

\* C3 as stated: an identifier takes in the letters and digits that follow its
\* first letter, and fails unless it is a keyword or one character long; a1 fails.
C3_Original ==
    Tokenized =>
        /\ BadWords(text, "alnum") # {} => pc = "lex_err"
        /\ text = A1 => pc = "lex_err"

\* C3 amended: an identifier takes in the letters that follow its first letter
\* and stops at a digit; tokenization fails when such a word is neither a
\* keyword nor one letter long, and fails with 'Variable length cannot exceed 1'
\* only then; the tokens of a tokenized text hold one Variable for each
\* one-letter word; a1 is Variable(a) followed by Number(1).
C3_LettersOnly ==
    Tokenized =>
        /\ BadWords(text, "letters") # {} => pc = "lex_err"
        /\ pc = "lex_err" /\ err = "Variable length cannot exceed 1" =>
              BadWords(text, "letters") # {}
        /\ pc # "lex_err" =>
              Cardinality({i \in 1..Len(tokens) : tokens[i].t = "Variable"})
                = Cardinality({i \in RunStarts(text, "letters") :
                                  WordLen(text, i, "letters") = 1})
        /\ text = A1 =>
              /\ pc # "lex_err"
              /\ tokens = <<Variable("a"), Number(IntVal(1))>>

C3_Witness ==
    /\ text = A1
    /\ pc = "populate"
    /\ tokens = <<Variable("a"), Number(IntVal(1))>>

\* the identifiers of ts in the order of their first occurrence
RECURSIVE FirstOccurrences(_)
FirstOccurrences(ts) ==
    IF ts = <<>> THEN <<>>
    ELSE LET before == FirstOccurrences(Prefix(ts, Len(ts) - 1))
             last == ts[Len(ts)]
         IN  IF last.t = "Variable" /\ Count(before, last.id) = 0
             THEN Append(before, last.id)
             ELSE before

\* nothing of the parser or of eval has run
NotParsed == ast = NoTree /\ it = 1 /\ prims = {} /\ result = NoVal

\* C10: (i) no query before the whole text is tokenized, none when that fails;
\* (ii) the queries are the identifiers in the order of their first occurrence;
\* (iii) a response that does not parse is the last one: the run has failed, it
\* asks and parses nothing more; (iv) parsing starts, and a parse failure is
\* found, only when every identifier of the token sequence has been asked for.
C10_StageOrder ==
    /\ pc \in {"start", "lex_err"} => queries = <<>> /\ responses = <<>>
    /\ pc \in {"start", "lex_err", "populate", "resolve_err"} => NotParsed
    /\ pc = "lex_err" => tokens = <<>> /\ populated = <<>>
    /\ pc \notin {"start", "lex_err"} => produce_tokens(text) = LexOk(tokens)
    /\ pc = "populate" => queries = FirstOccurrences(Seen)
    /\ pc = "resolve_err" => queries = FirstOccurrences(Prefix(tokens, idx))
    /\ \A i \in 1..Len(responses) :
          ~Parses(responses[i]) =>
              /\ i = Len(responses)
              /\ pc = "resolve_err"
              /\ ~ENABLED Next
    /\ pc = "resolve_err" => ~Parses(responses[Len(responses)])
    /\ Populated =>
          /\ queries = FirstOccurrences(tokens)
          /\ \A id \in VarIds(tokens) : Count(queries, id) = 1
    /\ pc \in {"parse_err", "eval_err", "lex_err", "resolve_err", "done"} => ~ENABLED Next

C10_Witness ==
    /\ pc = "parse_err"
    /\ tokens = <<RightParen, Variable("l"), Variable("a")>>
    /\ queries = <<"l", "a">>
    /\ it = 1

(***************************************************************************)
(* Properties of the parser and of eval, checked under SpecParse.          *)
(***************************************************************************)
\* ParseExpr::expr has run
Parsed == pc \in {"eval", "done", "eval_err", "parse_err"}

\* ParseExpr::expr has returned a tree
ParsedOk == pc \in {"eval", "done", "eval_err"}

ParseFailedWith(e) == pc = "parse_err" /\ err = e /\ ast = NoTree /\ result = NoVal

N2 == Number(IntVal(2))
N3 == Number(IntVal(3))

\* opening minus closing brackets among the first n tokens
RECURSIVE Depth(_, _)
Depth(ts, n) ==
    IF n = 0 THEN 0
    ELSE Depth(ts, n - 1) + (IF ts[n] = LeftParen THEN 1 ELSE 0)
                          - (IF ts[n] = RightParen THEN 1 ELSE 0)

\* the closing bracket that matches the opening bracket at i, among the first n
\* tokens: the first later position that brings the depth back
HasMatch(ts, i, n) ==
    \E j \in (i + 1)..n :
        /\ ts[j] = RightParen
        /\ Depth(ts, j) = Depth(ts, i - 1)
        /\ \A m \in i..(j - 1) : Depth(ts, m) > Depth(ts, i - 1)

OnePlusTwoOpen == <<LeftParen, N2, Plus, N3>>

\* C4: when primary has consumed a LeftParen and the expression inside it has
\* been parsed, a next token that is not a RightParen (or no next token) makes
\* the whole parse fail with 'Unclosed bracket' and no value; in what a
\* successful parse consumed every LeftParen has its RightParen.
C4_UnclosedBracket ==
    Parsed =>
        /\ \A p \in prims :
              p <= Len(populated) /\ populated[p] = LeftParen =>
                  LET inner == expr(populated, p + 1) IN
                      inner.ok /\ ~(inner.pos <= Len(populated)
                                    /\ populated[inner.pos] = RightParen)
                          => ParseFailedWith("Unclosed bracket")
        /\ ParsedOk =>
              /\ Depth(populated, it - 1) = 0
              /\ \A i \in 1..(it - 1) :
                    populated[i] = LeftParen => HasMatch(populated, i, it - 1)
        /\ populated = OnePlusTwoOpen => ParseFailedWith("Unclosed bracket")

C4_Witness ==
    /\ populated = <<LeftParen, N2, N3, RightParen>>
    /\ ParseFailedWith("Unclosed bracket")
    /\ prims = {1, 2}

(***************************************************************************)
(* The grammar of the specification, parsed by precedence climbing: a      *)
(* binary operator of level n takes as its right operand an expression of  *)
(* the operators of level above n.                                         *)
(***************************************************************************)
Level(t) ==
    CASE t \in {Plus, Minus} -> 1
      [] t \in {Star, Slash} -> 2
      [] t = Power -> 3
      [] OTHER -> 0

IsPrefix(t) == t \in {Minus, Plus, Ln, Log, Sin, Cos, Tan}

GOk(tree, pos) == [ok |-> TRUE, tree |-> tree, pos |-> pos]
GFail == [ok |-> FALSE, tree |-> NoTree, pos |-> 0]

RECURSIVE GExpr(_, _, _), GClimb(_, _, _), GOperand(_, _)

GOperand(ts, pos) ==
    IF pos > Len(ts) THEN GFail
    ELSE IF IsPrefix(ts[pos])
    THEN LET e == GOperand(ts, pos + 1) IN
         IF e.ok THEN GOk(Unary(ts[pos], e.tree), e.pos) ELSE GFail
    ELSE IF ts[pos].t = "Number" THEN GOk(Value(ts[pos]), pos + 1)
    ELSE IF ts[pos] = LeftParen
    THEN LET e == GExpr(ts, pos + 1, 1) IN
         IF e.ok /\ e.pos <= Len(ts) /\ ts[e.pos] = RightParen
         THEN GOk(e.tree, e.pos + 1)
         ELSE GFail
    ELSE GFail

GClimb(ts, left, min) ==
    IF left.pos <= Len(ts) /\ Level(ts[left.pos]) >= min
    THEN LET right == GExpr(ts, left.pos + 1, Level(ts[left.pos]) + 1) IN
         IF right.ok
         THEN GClimb(ts, GOk(Binary(left.tree, ts[left.pos], right.tree), right.pos), min)
         ELSE GFail
    ELSE left

GExpr(ts, pos, min) ==
    LET left == GOperand(ts, pos) IN IF left.ok THEN GClimb(ts, left, min) ELSE GFail

Grammar(ts) == GExpr(ts, 1, 1)

V2 == Value(N2)
V3 == Value(N3)

\* C5: the tree ParseExpr::expr returns is the tree of the grammar, and it
\* fails where the grammar derives nothing; 2 + 3 * 2 groups the product,
\* 2 * 3 ^ 2 groups the power, - 2 ^ 3 negates the base only, and a bracketed
\* group is one operand.
C5_Precedence ==
    Parsed =>
        /\ LET g == Grammar(populated) IN
               /\ ParsedOk = g.ok
               /\ ParsedOk => ast = g.tree /\ it = g.pos
        /\ populated = <<N2, Plus, N3, Star, N2>> =>
              ast = Binary(V2, Plus, Binary(V3, Star, V2))
        /\ populated = <<N2, Star, N3, Power, N2>> =>
              ast = Binary(V2, Star, Binary(V3, Power, V2))
        /\ populated = <<Minus, N2, Power, N3>> =>
              ast = Binary(Unary(Minus, V2), Power, V3)
        /\ populated = <<Sin, N2, Star, N3>> =>
              ast = Binary(Unary(Sin, V2), Star, V3)
        /\ populated = <<LeftParen, N2, Plus, N3, RightParen>> =>
              ast = Binary(V2, Plus, V3)
        /\ populated = <<N2, Power, LeftParen, N3, RightParen>> =>
              ast = Binary(V2, Power, V3)

C5_Witness ==
    /\ populated = <<N2, Plus, N3, Star, N2>>
    /\ pc = "done"
    /\ ast = Binary(V2, Plus, Binary(V3, Star, V2))
    /\ result = IntVal(8)

IsBinaryOperator(t) == t \in {Plus, Minus, Star, Slash, Power}

\* C6: when the parse of a prefix s of the tokens succeeds and the token after
\* s, if any, is no binary operator, the parse of the whole sequence succeeds
\* with the same tree and stops at the same token, and eval gives the same
\* result; '2 3' and '2 )' evaluate to 2.
C6_TrailingTokens ==
    Parsed =>
        /\ \A n \in 0..Len(populated) :
              LET s == expr(Prefix(populated, n), 1) IN
                  s.ok /\ (n = Len(populated) \/ ~IsBinaryOperator(populated[n + 1])) =>
                      /\ ParsedOk
                      /\ ast = s.tree
                      /\ it = s.pos
                      /\ pc = "done" => EOk(result) = eval(s.tree)
        /\ populated \in {<<N2, N3>>, <<N2, RightParen>>} /\ pc = "done" =>
              result = IntVal(2) /\ it = 2

C6_Witness ==
    /\ populated = <<N2, RightParen>>
    /\ pc = "done"
    /\ result = IntVal(2)
    /\ it = 2

RECURSIVE WellFormed(_)
WellFormed(tree) ==
    CASE tree.k = "Binary" ->
           /\ tree.o \in {Plus, Minus, Star, Slash, Power}
           /\ Len(tree.kids) = 2
           /\ WellFormed(tree.kids[1])
           /\ WellFormed(tree.kids[2])
      [] tree.k = "Unary" ->
           /\ tree.o \in {Minus, Plus, Ln, Log, Sin, Cos, Tan}
           /\ Len(tree.kids) = 1
           /\ WellFormed(tree.kids[1])
      [] tree.k = "Value" -> tree.o.t = "Number" /\ tree.kids = <<>>
      [] OTHER -> FALSE

DefensiveErrors == {"Invalid binary operand.", "Invalid unary operand.", "Invalid value"}

\* C7: the tree of a successful parse has only the five binary operators in
\* its Binary nodes, only the seven prefix operators in its Unary nodes and
\* only Numbers in its Value nodes, so no bracket; eval on it returns a value
\* and none of its three defensive errors.
C7_WellFormedTree ==
    /\ ParsedOk => WellFormed(ast) /\ eval(ast).ok
    /\ pc # "eval_err"
    /\ err \notin DefensiveErrors
    /\ pc = "done" => result.k \in {"int", "sym"}

C7_Witness ==
    /\ pc = "done"
    /\ populated = <<Sin, N2, Slash, N3>>
    /\ ast = Binary(Unary(Sin, V2), Slash, V3)
    /\ result.k = "sym"

\* C8: the empty text gives the empty token sequence; whenever primary is
\* entered at the end of the tokens or at a token that is neither a Number nor
\* a LeftParen, the parse fails with 'parser failed', and evaluate ends with an
\* error and no value: so for no token at all, for tokens that start with
\* RightParen, Star, Slash or Power, and for an operator at the end whose
\* operand the parser looks for.
C8_NoOperand ==
    /\ text = <<>> => produce_tokens(text) = LexOk(<<>>) /\ tokens = <<>>
    /\ Parsed =>
          /\ \A p \in prims :
                (p > Len(populated) \/ populated[p].t \notin {"Number", "LeftParen"}) =>
                    /\ ParseFailedWith("parser failed")
                    /\ it = p
                    /\ ~ENABLED NextParse
          /\ populated = <<>> => ParseFailedWith("parser failed")
          /\ populated # <<>> /\ populated[1] \in {RightParen, Star, Slash, Power} =>
                ParseFailedWith("parser failed")
          /\ populated \in {<<N2, Plus>>, <<N2, Star>>, <<N2, Power>>, <<Minus>>, <<Sin>>,
                            <<N2, Plus, Sin>>, <<LeftParen, N2, Slash>>} =>
                ParseFailedWith("parser failed")
          /\ pc = "parse_err" /\ err = "parser failed" =>
                \E p \in prims :
                    p > Len(populated) \/ populated[p].t \notin {"Number", "LeftParen"}

C8_Witness ==
    /\ populated = <<N2, Plus, Sin>>
    /\ ParseFailedWith("parser failed")
    /\ prims = {1, 4}
    /\ it = 4

\* the tokens are operands with an operator of the set ops between each two
IsChain(ts, ops) ==
    /\ Len(ts) >= 3
    /\ Len(ts) % 2 = 1
    /\ \A i \in 1..Len(ts) : IF i % 2 = 1 THEN ts[i].t = "Number" ELSE ts[i] \in ops

\* the tree of a chain folded to the left: the last operator is the root, its
\* right child the last operand
RECURSIVE LeftFold(_)
LeftFold(ts) ==
    IF Len(ts) = 1 THEN Value(ts[1])
    ELSE Binary(LeftFold(Prefix(ts, Len(ts) - 2)), ts[Len(ts) - 1], Value(ts[Len(ts)]))

\* the tokens are prefix operators and then one Number
IsPrefixRun(ts) ==
    /\ Len(ts) >= 2
    /\ ts[Len(ts)].t = "Number"
    /\ \A i \in 1..(Len(ts) - 1) : IsPrefix(ts[i])

\* the tree of a run of prefix operators: the first operator is the root
RECURSIVE NestRight(_)
NestRight(ts) ==
    IF Len(ts) = 1 THEN Value(ts[1]) ELSE Unary(Head(ts), NestRight(Tail(ts)))

\* the number of Binary nodes on the leftmost branch of the tree
RECURSIVE LeftDepth(_)
LeftDepth(tree) == IF tree.k = "Binary" THEN 1 + LeftDepth(tree.kids[1]) ELSE 0

NoBrackets(ts) == \A i \in 1..Len(ts) : ts[i] \notin {LeftParen, RightParen}

\* no Binary node has as its right child a Binary node of its own level or of
\* a looser one, nor as its left child a Binary node of a looser level; an
\* operand of a prefix operator is no Binary node
RECURSIVE LeftLeaning(_)
LeftLeaning(tree) ==
    CASE tree.k = "Binary" ->
           /\ tree.kids[2].k = "Binary" => Level(tree.kids[2].o) > Level(tree.o)
           /\ tree.kids[1].k = "Binary" => Level(tree.kids[1].o) >= Level(tree.o)
           /\ LeftLeaning(tree.kids[1])
           /\ LeftLeaning(tree.kids[2])
      [] tree.k = "Unary" -> tree.kids[1].k # "Binary" /\ LeftLeaning(tree.kids[1])
      [] OTHER -> TRUE

PowerChain == <<N2, Power, N3, Power, N2>>

\* C9: a chain of n operators of one level, the power level included, parses
\* to the tree folded to the left, of depth n, with the operands as right
\* children; 2 ^ 3 ^ 2 is (2 ^ 3) ^ 2 = 64; a run of prefix operators nests
\* from the right; without brackets no right child is a Binary node of the
\* same or of a looser level.
C9_LeftFold ==
    Parsed =>
        /\ \A ops \in {{Plus, Minus}, {Star, Slash}, {Power}} :
              IsChain(populated, ops) =>
                  /\ ParsedOk
                  /\ ast = LeftFold(populated)
                  /\ LeftDepth(ast) = (Len(populated) - 1) \div 2
                  /\ it = Len(populated) + 1
        /\ populated = PowerChain =>
              /\ ast = Binary(Binary(V2, Power, V3), Power, V2)
              /\ pc = "done" => result = IntVal(64)
        /\ populated = <<N3, Minus, N2, Minus, N2>> /\ pc = "done" => result = IntVal(-1)
        /\ populated = <<N2, Slash, N2, Slash, N2>> /\ pc = "done" =>
              result = f32_div(IntVal(1), IntVal(2))
        /\ IsPrefixRun(populated) =>
              /\ ParsedOk
              /\ ast = NestRight(populated)
        /\ populated = <<Minus, Minus, N3>> => ast = Unary(Minus, Unary(Minus, V3))
        /\ ParsedOk /\ NoBrackets(Prefix(populated, it - 1)) => LeftLeaning(ast)

C9_Witness ==
    /\ populated = PowerChain
    /\ pc = "done"
    /\ ast = Binary(Binary(V2, Power, V3), Power, V2)
    /\ result = IntVal(64)

====
